---- MODULE Spec2Model ----
(***************************************************************************)
(* Model of go-minercraft's fee quote engine: FeePayload.GetFee,           *)
(* parseResponseIntoQuote, Client.FeeQuote and the two Client.BestQuote    *)
(* implementations (fee_quote.go, signed rates; best_quote.go, unsigned    *)
(* rates and a cancellation context).                                      *)
(***************************************************************************)
EXTENDS Integers, Sequences, FiniteSets, TLC

\* Largest number of configured miners (len(c.Miners)) explored.
MaxPeers == 2

(***************************************************************************)
(* Go values.  A pointer is a sequence of length 0 (nil) or 1.             *)
(***************************************************************************)
Nil == <<>>

Ptr(v) == <<v>>

IsNil(p) == Len(p) = 0

Deref(p) == p[1]

\* A nil error value.
NoErr == "nil"

\* fee_quote.go constants
FeeTypeData == "data"

FeeTypeStandard == "standard"

FeeCategoryMining == "mining"

FeeCategoryRelay == "relay"

\* The reference transaction size BestQuote scores every quote at.
RefBytes == 1000

(***************************************************************************)
(* strings.EqualFold over the strings the model uses: equality after       *)
(* Unicode case folding.                                                   *)
(***************************************************************************)
Lower(s) ==
  CASE s = "STANDARD" -> "standard"
    [] s = "Standard" -> "standard"
    [] s = "DATA" -> "data"
    [] s = "Data" -> "data"
    [] s = "MINING" -> "mining"
    [] s = "Mining" -> "mining"
    [] s = "RELAY" -> "relay"
    [] s = "Relay" -> "relay"
    [] OTHER -> s

EqualFold(a, b) == Lower(a) = Lower(b)

(***************************************************************************)
(* int64 arithmetic of GetFee.  Go's / truncates toward zero and panics on *)
(* a zero divisor; Go's * wraps modulo 2^64.  The checker's integers are   *)
(* narrower than int64, so an int64 satoshis amount is carried as a        *)
(* mantissa and a shift, satoshis = Satoshis * 2^Shift; the common amounts *)
(* have Shift 0.  Products and quotients keep the shift of the amount.     *)
(***************************************************************************)
\* The width of int64 (feeAmount.Satoshis, feeAmount.Bytes, txBytes).
WordBits == 64

Abs(x) == IF x < 0 THEN -x ELSE x

GoDiv(a, b) ==
  IF (a < 0) = (b < 0) THEN Abs(a) \div Abs(b) ELSE -(Abs(a) \div Abs(b))

\* The int64 product (m * 2^shift) * t, as the mantissa of the same shift:
\* only the low WordBits - shift bits of m * t survive, read as a signed
\* number.
Mul64(m, shift, t) ==
  LET bits == WordBits - shift IN
  IF bits > 30 THEN m * t
  ELSE LET r == (m * t) % (2 ^ bits) IN
       IF r >= 2 ^ (bits - 1) THEN r - 2 ^ bits ELSE r

\* floor((q * b + r) * 2^s / b) for 0 <= r < b, by long division, up to
\* eight binary digits at a step.
RECURSIVE ScaleDiv(_, _, _, _)
ScaleDiv(q, r, s, b) ==
  IF s = 0 THEN q
  ELSE LET k == IF s > 8 THEN 8 ELSE s
           n == r * (2 ^ k)
       IN ScaleDiv(q * (2 ^ k) + (n \div b), n % b, s - k, b)

\* The int64 quotient (m * 2^shift) / b, truncated toward zero.
Div64(m, shift, b) ==
  IF shift = 0 THEN GoDiv(m, b)
  ELSE LET q == ScaleDiv(Abs(m) \div Abs(b), Abs(m) % Abs(b), shift, Abs(b)) IN
       IF (m < 0) = (b < 0) THEN q ELSE -q

\* What a call ends in: a returned (fee, err) pair or a runtime panic.
Return(fee, err) == [kind |-> "return", fee |-> fee, err |-> err]

Panic(why) == [kind |-> "panic", fee |-> 0, err |-> why]

\* A variant of RateOf with the two rates exchanged.
RateOf_Swapped(fee, feeCategory) ==
  IF EqualFold(feeCategory, FeeCategoryMining) THEN fee.RelayFee ELSE fee.MiningFee

\* The rate of a fee entry for the category: lines 130-134 pick MiningFee
\* when the category folds to "mining", RelayFee otherwise.
RateOf(fee, feeCategory) ==
  IF EqualFold(feeCategory, FeeCategoryMining) THEN fee.MiningFee ELSE fee.RelayFee

\* A variant of CalcFee without the zero check.
CalcFee_NoZeroCheck(fee, feeCategory, txBytes) ==
  LET rate == RateOf(fee, feeCategory) IN
  IF IsNil(rate) THEN Panic("nil pointer dereference")
  ELSE IF Deref(rate).Bytes = 0 THEN Panic("integer divide by zero")
  ELSE Return(Div64(Mul64(Deref(rate).Satoshis, Deref(rate).Shift, txBytes),
                    Deref(rate).Shift, Deref(rate).Bytes), NoErr)

\* Lines 128-142: multiply and divide, then the zero check.
CalcFee(fee, feeCategory, txBytes) ==
  LET rate == RateOf(fee, feeCategory) IN
  IF IsNil(rate) THEN Panic("nil pointer dereference")
  ELSE IF Deref(rate).Bytes = 0 THEN Panic("integer divide by zero")
  ELSE LET product == Mul64(Deref(rate).Satoshis, Deref(rate).Shift, txBytes)
           calcFee == Div64(product, Deref(rate).Shift, Deref(rate).Bytes)
       IN
       IF calcFee # 0 THEN Return(calcFee, NoErr)
       ELSE Return(1, "ZeroFeeWarning")

\* Line 126: the entry's tag is compared with == (exact match).
TagMatches(tag, feeType) == tag = feeType

\* Lines 123-147: the loop over f.Fees, from index i.
RECURSIVE ScanFees(_, _, _, _, _)
ScanFees(fees, i, feeCategory, feeType, txBytes) ==
  IF i > Len(fees) THEN Return(1, "FeeTypeNotFound")
  ELSE IF IsNil(fees[i]) THEN Panic("nil pointer dereference")
  ELSE IF TagMatches(Deref(fees[i]).FeeType, feeType)
       THEN CalcFee(Deref(fees[i]), feeCategory, txBytes)
  ELSE ScanFees(fees, i + 1, feeCategory, feeType, txBytes)

\* A variant of ValidParams that checks the fee type only.
ValidParams_TypeOnly(feeCategory, feeType) ==
  EqualFold(feeType, FeeTypeData) \/ EqualFold(feeType, FeeTypeStandard)

\* Lines 116-120: the parameter validation.
ValidParams(feeCategory, feeType) ==
  /\ EqualFold(feeType, FeeTypeData) \/ EqualFold(feeType, FeeTypeStandard)
  /\ EqualFold(feeCategory, FeeCategoryMining) \/ EqualFold(feeCategory, FeeCategoryRelay)

\* func (f *FeePayload) GetFee(feeCategory, feeType string, txBytes int64)
\* f is a pointer: a nil receiver is dereferenced by f.Fees at line 123.
GetFee(f, feeCategory, feeType, txBytes) ==
  IF ~ValidParams(feeCategory, feeType) THEN Return(0, "UnrecognizedParameter")
  ELSE IF IsNil(f) THEN Panic("nil pointer dereference")
  ELSE ScanFees(Deref(f).Fees, 1, feeCategory, feeType, txBytes)

\* best_quote.go calls quote.Quote.CalculateFee, the unsigned twin of GetFee
\* ("an equivalent fee-comparison routine" with another integer width).
CalculateFee(f, feeCategory, feeType, txBytes) ==
  GetFee(f, feeCategory, feeType, txBytes)

(***************************************************************************)
(* Wire format.  A response body is either not JSON at all or an envelope  *)
(* object.  A payload string is a sequence of characters: the backslash,   *)
(* or a token standing for a run of JSON text.  A signature is empty, or   *)
(* <<key, msg>> (a DER signature by key over the digest of msg), or a      *)
(* one-element sequence that is not DER.                                   *)
(***************************************************************************)
Backslash == "\\"

Envelope(payload, signature, publicKey) ==
  [json |-> TRUE, payload |-> payload, signature |-> signature,
   publicKey |-> publicKey, encoding |-> "UTF-8", mimetype |-> "application/json"]

NotJSON ==
  [json |-> FALSE, payload |-> <<>>, signature |-> <<>>,
   publicKey |-> "", encoding |-> "", mimetype |-> ""]

\* feeAmount behind a pointer; BigRate is an amount of satoshis * 2^shift.
BigRate(satoshis, shift, bytes) ==
  Ptr([Satoshis |-> satoshis, Shift |-> shift, Bytes |-> bytes])

Rate(satoshis, bytes) == BigRate(satoshis, 0, bytes)

\* feeType behind a pointer
Fee(tag, miningFee, relayFee) ==
  Ptr([FeeType |-> tag, MiningFee |-> miningFee, RelayFee |-> relayFee])

\* The payload documents peers send, by token.
ScheduleNames == {"A", "B", "Z", "D0", "NR", "E"}

ScheduleOf(tok) ==
  CASE tok = "A" -> [Fees |-> << Fee("standard", Rate(500, 1000), Rate(250, 1000)),
                                 Fee("data", Rate(400, 1000), Rate(200, 1000)) >>]
    [] tok = "B" -> [Fees |-> << Fee("data", Rate(600, 1000), Rate(100, 1000)),
                                 Fee("standard", Rate(300, 1000), Rate(250, 1000)) >>]
    [] tok = "Z" -> [Fees |-> << Fee("standard", Rate(1, 2000), Rate(0, 1000)) >>]
    [] tok = "D0" -> [Fees |-> << Fee("standard", Rate(500, 0), Rate(250, 0)) >>]
    [] tok = "NR" -> [Fees |-> << Fee("standard", Nil, Nil) >>]
    [] tok = "E" -> [Fees |-> << >>]

\* The zero value of FeeQuoteResponse (var bestQuote FeeQuoteResponse).
\* Miner 0 is the nil *Miner.
ZeroResponse ==
  [Miner |-> 0, Quote |-> Nil, Payload |-> <<>>, Validated |-> FALSE,
   Signature |-> <<>>, PublicKey |-> "", Encoding |-> "", MimeType |-> ""]

\* strings.Replace(response.Payload, "\\", "", -1)
StripSlashes(payload) == SelectSeq(payload, LAMBDA c : c # Backslash)

\* json.Unmarshal([]byte(response.Payload), &response.Quote): the text must
\* be one JSON document.
DecodePayload(text) ==
  IF Len(text) = 1 /\ text[1] \in ScheduleNames
  THEN [err |-> NoErr, quote |-> Ptr(ScheduleOf(text[1]))]
  ELSE [err |-> "MalformedPayload", quote |-> Nil]

\* sha256.Sum256: a collision-free digest of the string.
Sum256(text) == <<"sha256", text>>

\* bitcoin.VerifyMessageDER(digest, pubKey, signature): an error when the
\* signature does not parse as DER, otherwise whether it is pubKey's
\* signature over the digest.
VerifyMessageDER(digest, pubKey, signature) ==
  IF Len(signature) # 2 THEN [valid |-> FALSE, err |-> "VerifierError"]
  ELSE [valid |-> signature[1] = pubKey /\ Sum256(signature[2]) = digest,
        err |-> NoErr]

\* A variant of SignatureFound that asks for either field.
SignatureFound_Either(signature, publicKey) == Len(signature) > 0 \/ publicKey # ""

\* Line 303: the signature is validated only if both are found.
SignatureFound(signature, publicKey) == Len(signature) > 0 /\ publicKey # ""

\* A variant of VerifiedText that digests the string before stripping.
VerifiedText_Received(received, stripped) == received

\* Line 307: the bytes digested are response.Payload, which line 296 has
\* overwritten with the stripped string.
VerifiedText(received, stripped) == stripped

\* A variant of VerifyResult that turns a rejected signature into an error.
VerifyResult_RejectAborts(verdict) ==
  [Validated |-> verdict.valid,
   err |-> IF verdict.err = NoErr /\ ~verdict.valid THEN "SignatureInvalid"
           ELSE verdict.err]

\* Lines 306-312: Validated takes the verifier's verdict, and only the
\* verifier's error aborts.
VerifyResult(verdict) == [Validated |-> verdict.valid, err |-> verdict.err]

\* A variant of WithMiner that leaves the miner unset.
WithMiner_Unset(response, result) == response

\* Line 284: Set the miner on the response
WithMiner(response, result) == [response EXCEPT !.Miner = result.Miner]

\* Lines 302-313: verify the signature if both fields are found.  received
\* is the payload string as it came in the envelope.
verifySignature(response, received) ==
  IF ~SignatureFound(response.Signature, response.PublicKey)
  THEN [response |-> response, err |-> NoErr, calls |-> <<>>]
  ELSE
    LET digest == Sum256(VerifiedText(received, response.Payload))
        verdict == VerifyMessageDER(digest, response.PublicKey, response.Signature)
        out == VerifyResult(verdict)
    IN [response |-> [response EXCEPT !.Validated = out.Validated],
        err |-> out.err,
        calls |-> << [digest |-> digest, publicKey |-> response.PublicKey,
                      signature |-> response.Signature, valid |-> verdict.valid,
                      err |-> verdict.err] >>]

\* Lines 294-300: a non-empty payload is stripped of backslashes, stored
\* back and decoded into response.Quote.
unmarshalPayload(response) ==
  IF Len(response.Payload) = 0 THEN [response |-> response, err |-> NoErr]
  ELSE LET stripped == StripSlashes(response.Payload)
           dec == DecodePayload(stripped)
       IN [response |-> [response EXCEPT !.Payload = stripped, !.Quote = dec.quote],
           err |-> dec.err]

\* Line 287: json.Unmarshal of the body into the response.
unmarshalEnvelope(response, body) ==
  [response EXCEPT !.Payload = body.payload, !.Signature = body.signature,
                   !.PublicKey = body.publicKey, !.Encoding = body.encoding,
                   !.MimeType = body.mimetype]

\* func parseResponseIntoQuote(result *feeResult) (response FeeQuoteResponse, err error)
\* calls lists the verifier invocations made, with their verdicts.
parseResponseIntoQuote(result) ==
  LET body == result.Response.BodyContents IN
  IF ~body.json
  THEN [response |-> WithMiner(ZeroResponse, result), err |-> "MalformedEnvelope",
        calls |-> <<>>]
  ELSE
    LET dec == unmarshalPayload(unmarshalEnvelope(WithMiner(ZeroResponse, result), body))
    IN
    IF dec.err # NoErr THEN [response |-> dec.response, err |-> dec.err, calls |-> <<>>]
    ELSE verifySignature(dec.response, body.payload)

\* best_quote.go calls result.parseQuote(), the same parse/verify pipeline
\* as a method of the result.
parseQuote(result) == parseResponseIntoQuote(result)

(***************************************************************************)
(* What the transport hands back for one request (RequestResponse): an     *)
(* error with no body, or a body.                                          *)
(***************************************************************************)
Failed(err) == [Error |-> err, BodyContents |-> NotJSON]

Body(contents) == [Error |-> NoErr, BodyContents |-> contents]

SigBy(key, text) == <<key, text>>

Responses ==
  { Failed("TransportFailure"),
    Body(NotJSON),
    Body(Envelope(<<"A">>, <<>>, "")),
    Body(Envelope(<<"B">>, <<>>, "")),
    Body(Envelope(<<Backslash, "A">>, SigBy("K1", <<"A">>), "K1")),
    Body(Envelope(<<Backslash, "B">>, SigBy("K1", <<Backslash, "B">>), "K1")),
    Body(Envelope(<<"A">>, SigBy("K2", <<"A">>), "K1")),
    Body(Envelope(<<"B">>, <<"not DER">>, "K1")),
    Body(Envelope(<<"A">>, SigBy("K1", <<"A">>), "")),
    Body(Envelope(<<>>, <<>>, "")),
    Body(Envelope(<<"{">>, <<>>, "")),
    Body(Envelope(<<"Z">>, <<>>, "")),
    Body(Envelope(<<"D0">>, <<>>, "")),
    Body(Envelope(<<"NR">>, <<>>, "")),
    Body(Envelope(<<"E">>, <<>>, "")) }

\* The schedules GetFee is called on directly: the payload documents, a
\* nil receiver, and schedules with a negative rate, a duplicated tag, a
\* capitalised tag, a nil entry and a rate of 2^62 satoshis.
FeeSchedules ==
  { Ptr(ScheduleOf(tok)) : tok \in ScheduleNames } \cup
  { Nil,
    Ptr([Fees |-> << Fee("standard", Rate(-3, 2000), Rate(-1, 1000)) >>]),
    Ptr([Fees |-> << Fee("standard", Rate(700, 1000), Rate(70, 1000)),
                     Fee("standard", Rate(900, 1000), Rate(90, 1000)) >>]),
    Ptr([Fees |-> << Fee("Standard", Rate(500, 1000), Rate(250, 1000)) >>]),
    Ptr([Fees |-> << Nil, Fee("standard", Rate(500, 1000), Rate(250, 1000)) >>]),
    Ptr([Fees |-> << Fee("standard", BigRate(1, 62, 1000), BigRate(1, 62, 1000)) >>]) }

\* The arguments GetFee is called with directly.
FeeTypes == {"standard", "data", "STANDARD", "Data", "bogus"}

FeeCategories == {"mining", "relay", "Mining", "bogus"}

TxSizes == {0, 1000, 1500}

\* No GetFee call has ended.
NoResult == [kind |-> "none", fee |-> 0, err |-> NoErr]

\* The (feeCategory, feeType) arguments callers pass to BestQuote.
Params ==
  { <<"mining", "standard">>, <<"RELAY", "standard">>,
    <<"mining", "STANDARD">>, <<"mining", "bogus">> }

(***************************************************************************)
(* State.                                                                  *)
(***************************************************************************)
VARIABLES
  variant,        \* which BestQuote: "fee_quote" (fee_quote.go) or "best_quote" (best_quote.go)
  call,           \* the call under way: "BestQuote", "FeeQuote" or "GetFee"
  feeCategory,    \* BestQuote's and GetFee's arguments
  feeType,
  feeArg,         \* GetFee's receiver f and its txBytes
  feeRet,         \* what the GetFee call ended in
  numMiners,      \* len(c.Miners); the miners are 1..numMiners
  miner,          \* FeeQuote's argument, 0 for nil
  pc,             \* the caller's position: "start", "launch", "drain", "done"
  launched,       \* goroutines started by the launch loop
  wg,             \* the WaitGroup counter
  worker,         \* per miner: "idle", "running", "sent", "done"
  resultsChannel, \* the buffered channel's contents
  closed,         \* close(resultsChannel) has run
  cancelled,      \* the context's cancel() has run (best_quote.go)
  bestRate,
  bestQuote,
  requests,       \* HTTP requests issued so far
  drained,        \* the results received from the channel (or fetched by FeeQuote), in order
  parsed,         \* what parseResponseIntoQuote returned for each result it was given
  outcome,        \* "running", "quote", "error", "panic"; "returned" for GetFee
  retQuote,       \* the returned *FeeQuoteResponse
  retErr,         \* the returned error
  retMiner        \* the miner whose result produced the error or panic, 0 if none

vars ==
  << variant, call, feeCategory, feeType, feeArg, feeRet, numMiners, miner, pc,
     launched, wg, worker, resultsChannel, closed, cancelled, bestRate, bestQuote, requests,
     drained, parsed, outcome, retQuote, retErr, retMiner >>

MinerSet == 1 .. numMiners

Init ==
  /\ \/ /\ call = "BestQuote"
        /\ variant \in {"fee_quote", "best_quote"}
        /\ \E p \in Params : feeCategory = p[1] /\ feeType = p[2]
        /\ numMiners \in 0 .. MaxPeers
        /\ miner = 0
        /\ pc = "launch"
        /\ feeArg = [f |-> Nil, txBytes |-> RefBytes]
     \/ /\ call = "FeeQuote"
        /\ variant = "fee_quote"
        /\ feeCategory = "" /\ feeType = ""
        /\ numMiners = 1
        /\ miner \in 0 .. 1
        /\ pc = "start"
        /\ feeArg = [f |-> Nil, txBytes |-> RefBytes]
     \/ /\ call = "GetFee"
        /\ variant = "fee_quote"
        /\ feeCategory \in FeeCategories /\ feeType \in FeeTypes
        /\ numMiners = 0
        /\ miner = 0
        /\ pc = "start"
        /\ \E f \in FeeSchedules, n \in TxSizes : feeArg = [f |-> f, txBytes |-> n]
  /\ feeRet = NoResult
  /\ launched = 0
  /\ wg = 0
  /\ worker = [m \in MinerSet |-> "idle"]
  /\ resultsChannel = <<>>
  /\ closed = FALSE
  /\ cancelled = FALSE
  /\ bestRate = 0
  /\ bestQuote = ZeroResponse
  /\ requests = 0
  /\ drained = <<>>
  /\ parsed = <<>>
  /\ outcome = "running"
  /\ retQuote = Nil
  /\ retErr = NoErr
  /\ retMiner = 0

\* getQuote: one request to the miner, packaged with the miner.
getQuote(m, response) == [Response |-> response, Miner |-> m]

(***************************************************************************)
(* FeeQuote (fee_quote.go 185-211), the single-miner call.                 *)
(***************************************************************************)
\* A variant of NoQuotes that accepts a schedule without fee entries.
NoQuotes_NilOnly(response) == IsNil(response.Quote)

\* Line 205: Valid quotes?
NoQuotes(response) == IsNil(response.Quote) \/ Len(Deref(response.Quote).Fees) = 0

FeeQuote ==
  /\ call = "FeeQuote" /\ pc = "start"
  /\ pc' = "done"
  /\ IF miner = 0
     THEN /\ outcome' = "error" /\ retErr' = "ConfigurationError"
          /\ retQuote' = Nil /\ retMiner' = 0
          /\ UNCHANGED << requests, drained, parsed >>
     ELSE \E response \in Responses :
            LET result == getQuote(miner, response)
                p == parseResponseIntoQuote(result)
            IN
            /\ requests' = requests + 1
            /\ drained' = Append(drained, result)
            /\ retMiner' = miner
            /\ IF result.Response.Error # NoErr
               THEN /\ outcome' = "error" /\ retErr' = result.Response.Error
                    /\ retQuote' = Nil /\ parsed' = parsed
               ELSE /\ parsed' = Append(parsed, [result |-> result] @@ p)
                    /\ IF p.err # NoErr
                       THEN outcome' = "error" /\ retErr' = p.err /\ retQuote' = Nil
                       ELSE IF NoQuotes(p.response)
                       THEN /\ outcome' = "error" /\ retErr' = "EmptyScheduleError"
                            /\ retQuote' = Nil
                       ELSE /\ outcome' = "quote" /\ retErr' = NoErr
                            /\ retQuote' = Ptr(p.response)
  /\ UNCHANGED << variant, call, feeCategory, feeType, feeArg, feeRet, numMiners, miner, launched,
                  wg, worker, resultsChannel, closed, cancelled, bestRate, bestQuote >>

(***************************************************************************)
(* A direct call of GetFee (fee_quote.go 113-148).                         *)
(***************************************************************************)
GetFeeCall ==
  /\ call = "GetFee" /\ pc = "start"
  /\ pc' = "done"
  /\ feeRet' = GetFee(feeArg.f, feeCategory, feeType, feeArg.txBytes)
  /\ outcome' = IF feeRet'.kind = "panic" THEN "panic" ELSE "returned"
  /\ UNCHANGED << variant, call, feeCategory, feeType, feeArg, numMiners, miner,
                  launched, wg, worker, resultsChannel, closed, cancelled,
                  bestRate, bestQuote, requests, drained, parsed, retQuote,
                  retErr, retMiner >>

(***************************************************************************)
(* BestQuote: the launch loop, the workers, the barrier.                   *)
(* fee_quote.go 223-235 and 332-337; best_quote.go 18-37.                  *)
(***************************************************************************)
\* wg.Add(1); go getQuoteRoutine(...) for the next miner of c.Miners.
Launch ==
  /\ call = "BestQuote" /\ pc = "launch"
  /\ launched < numMiners
  /\ launched' = launched + 1
  /\ wg' = wg + 1
  /\ worker' = [worker EXCEPT ![launched + 1] = "running"]
  /\ UNCHANGED << variant, call, feeCategory, feeType, feeArg, feeRet, numMiners, miner, pc,
                  resultsChannel, closed, cancelled, bestRate, bestQuote, requests,
                  drained, parsed, outcome, retQuote, retErr, retMiner >>

\* A variant of Capacity with one slot less than there are miners.
Capacity_OneShort == numMiners - 1

\* make(chan *feeResult, len(c.Miners))
Capacity == numMiners

\* resultsChannel <- getQuote(client, miner): the request, then the send,
\* which needs room in the buffer.
Fetch(m) ==
  /\ worker[m] = "running"
  /\ Len(resultsChannel) < Capacity
  /\ \E response \in Responses :
       resultsChannel' = Append(resultsChannel, getQuote(m, response))
  /\ requests' = requests + 1
  /\ worker' = [worker EXCEPT ![m] = "sent"]
  /\ UNCHANGED << variant, call, feeCategory, feeType, feeArg, feeRet, numMiners, miner, pc,
                  launched, wg, closed, cancelled, bestRate, bestQuote,
                  drained, parsed, outcome, retQuote, retErr, retMiner >>

\* defer wg.Done()
Done(m) ==
  /\ worker[m] = "sent"
  /\ wg' = wg - 1
  /\ worker' = [worker EXCEPT ![m] = "done"]
  /\ UNCHANGED << variant, call, feeCategory, feeType, feeArg, feeRet, numMiners, miner, pc,
                  launched, resultsChannel, closed, cancelled, bestRate, bestQuote,
                  requests, drained, parsed, outcome, retQuote, retErr, retMiner >>

\* A variant of WaitReleased that does not wait at all.
WaitReleased_NoWait(counter) == TRUE

\* A variant of WaitReleased that lets the caller through one worker early.
WaitReleased_OneEarly(counter) == counter <= 1

\* wg.Wait() returns when the counter is zero.
WaitReleased(counter) == counter = 0

\* wg.Wait(); close(resultsChannel), reached when the launch loop is over.
WaitAndClose ==
  /\ call = "BestQuote" /\ pc = "launch"
  /\ launched = numMiners
  /\ WaitReleased(wg)
  /\ closed' = TRUE
  /\ pc' = "drain"
  /\ UNCHANGED << variant, call, feeCategory, feeType, feeArg, feeRet, numMiners, miner,
                  launched, wg, worker, resultsChannel, cancelled, bestRate,
                  bestQuote, requests, drained, parsed, outcome, retQuote,
                  retErr, retMiner >>

(***************************************************************************)
(* BestQuote: one iteration of the loop over the channel.                  *)
(***************************************************************************)
\* A variant of HasError that never sees the transport error.
HasError_Ignored(result) == FALSE

\* Line 242: Check for error?
HasError(result) == result.Response.Error # NoErr

\* fee_quote.go line 253: Do we have a rate set?
RateUnset(rate) == rate = 0

\* A variant of Better that also replaces the incumbent on a tie.
Better_OrEqual(testRate, rate) == testRate <= rate

\* A variant of Better with the comparison reversed.
Better_Reversed(testRate, rate) == testRate > rate

\* fee_quote.go line 262, best_quote.go line 60: testRate < bestRate
Better(testRate, rate) == testRate < rate

Continue(rate, quote, p) ==
  [next |-> "continue", bestRate |-> rate, bestQuote |-> quote, err |-> NoErr,
   parsed |-> p]

Stop(how, err, rate, quote, p) ==
  [next |-> how, bestRate |-> rate, bestQuote |-> quote, err |-> err, parsed |-> p]

\* The parse records a loop iteration adds.
ParseRecord(result, p) == << [result |-> result] @@ p >>

\* fee_quote.go lines 239-267
LoopBody(rate, quote, result, category, type) ==
  IF HasError(result)
  THEN Stop("return", result.Response.Error, rate, quote, <<>>)
  ELSE
    LET p == parseResponseIntoQuote(result)
        rec == ParseRecord(result, p)
        g == GetFee(p.response.Quote, category, type, RefBytes)
    IN
    IF p.err # NoErr THEN Stop("return", p.err, rate, quote, rec)
    ELSE IF RateUnset(rate)
    THEN IF g.kind = "panic" THEN Stop("panic", g.err, rate, p.response, rec)
         ELSE IF g.err # NoErr THEN Stop("return", g.err, g.fee, p.response, rec)
         ELSE Continue(g.fee, p.response, rec)
    ELSE IF g.kind = "panic" THEN Stop("panic", g.err, rate, quote, rec)
         ELSE IF g.err # NoErr THEN Stop("return", g.err, rate, quote, rec)
         ELSE IF Better(g.fee, rate) THEN Continue(g.fee, p.response, rec)
         ELSE Continue(rate, quote, rec)

\* best_quote.go lines 41-64
CtxLoopBody(rate, quote, result, category, type) ==
  IF HasError(result)
  THEN Stop("return", result.Response.Error, rate, quote, <<>>)
  ELSE
    LET p == parseQuote(result)
        rec == ParseRecord(result, p)
        g == CalculateFee(p.response.Quote, category, type, RefBytes)
    IN
    IF p.err # NoErr THEN Stop("return", p.err, rate, quote, rec)
    ELSE IF g.kind = "panic" THEN Stop("panic", g.err, rate, quote, rec)
    ELSE IF g.err # NoErr THEN Stop("return", g.err, rate, quote, rec)
    ELSE IF RateUnset(rate) \/ Better(g.fee, rate) THEN Continue(g.fee, p.response, rec)
    ELSE Continue(rate, quote, rec)

\* for result := range resultsChannel { ... }: receive one result and run
\* the loop body on it.  A return inside the body ends the call (and runs
\* the deferred cancel of best_quote.go); so does a panic.
Drain ==
  /\ call = "BestQuote" /\ pc = "drain"
  /\ Len(resultsChannel) > 0
  /\ LET result == Head(resultsChannel)
         step == IF variant = "fee_quote"
                 THEN LoopBody(bestRate, bestQuote, result, feeCategory, feeType)
                 ELSE CtxLoopBody(bestRate, bestQuote, result, feeCategory, feeType)
     IN
     /\ resultsChannel' = Tail(resultsChannel)
     /\ drained' = Append(drained, result)
     /\ parsed' = parsed \o step.parsed
     /\ bestRate' = step.bestRate
     /\ bestQuote' = step.bestQuote
     /\ IF step.next = "continue"
        THEN UNCHANGED << pc, outcome, retQuote, retErr, retMiner, cancelled >>
        ELSE /\ pc' = "done"
             /\ outcome' = IF step.next = "panic" THEN "panic" ELSE "error"
             /\ retQuote' = Nil
             /\ retErr' = step.err
             /\ retMiner' = result.Miner
             /\ cancelled' = (variant = "best_quote")
  /\ UNCHANGED << variant, call, feeCategory, feeType, feeArg, feeRet, numMiners, miner,
                  launched, wg, worker, closed, requests >>

\* The range loop ends on the closed, empty channel: return &bestQuote, nil.
ReturnBest ==
  /\ call = "BestQuote" /\ pc = "drain"
  /\ Len(resultsChannel) = 0 /\ closed
  /\ pc' = "done"
  /\ outcome' = "quote"
  /\ retQuote' = Ptr(bestQuote)
  /\ retErr' = NoErr
  /\ cancelled' = (variant = "best_quote")
  /\ UNCHANGED << variant, call, feeCategory, feeType, feeArg, feeRet, numMiners, miner,
                  launched, wg, worker, resultsChannel, closed, bestRate,
                  bestQuote, requests, drained, parsed, retMiner >>

Next ==
  \/ FeeQuote
  \/ GetFeeCall
  \/ Launch
  \/ \E m \in MinerSet : Fetch(m)
  \/ \E m \in MinerSet : Done(m)
  \/ WaitAndClose
  \/ Drain
  \/ ReturnBest

Spec == Init /\ [][Next]_vars

(***************************************************************************)
(* Vocabulary of the properties.                                           *)
(***************************************************************************)
\* Every result of the call in drain order: received ones, then the ones
\* still in the channel.
AllResults == drained \o resultsChannel

TransportFailed(r) == r.Response.Error # NoErr

ScoreOf(r) ==
  GetFee(parseResponseIntoQuote(r).response.Quote, feeCategory, feeType, RefBytes)

\* The error, soft or hard, that processing r alone ends in; NoErr if none
\* and "panic" for a runtime fault.
ErrorOf(r) ==
  IF TransportFailed(r) THEN r.Response.Error
  ELSE IF parseResponseIntoQuote(r).err # NoErr THEN parseResponseIntoQuote(r).err
  ELSE IF ScoreOf(r).kind = "panic" THEN "panic"
  ELSE ScoreOf(r).err

\* r is fetched, parsed, verified and scored without error or fault.
Clean(r) == ErrorOf(r) = NoErr

\* r has a hard error at some stage.
HardError(r) == ErrorOf(r) \notin {NoErr, "ZeroFeeWarning", "panic"}

\* The position of the first result satisfying Test, 0 if there is none.
FirstIndex(results, Test(_)) ==
  IF \E i \in 1 .. Len(results) : Test(results[i])
  THEN CHOOSE i \in 1 .. Len(results) :
         Test(results[i]) /\ \A j \in 1 .. (i - 1) : ~Test(results[j])
  ELSE 0

BestQuoteDone == call = "BestQuote" /\ pc = "done"

\* The verifier was called for p and answered valid=false without error.
SignatureRejected(p) ==
  Len(p.calls) = 1 /\ ~p.calls[1].valid /\ p.calls[1].err = NoErr

EnvelopeOf(p) == p.result.Response.BodyContents

\* Both decodings of p's body succeed.
Decodes(p) ==
  /\ EnvelopeOf(p).json
  /\ \/ Len(EnvelopeOf(p).payload) = 0
     \/ DecodePayload(StripSlashes(EnvelopeOf(p).payload)).err = NoErr

HasBackslash(text) == \E i \in 1 .. Len(text) : text[i] = Backslash

(***************************************************************************)
(* C1.  For a peer set of size 0, BestQuote returns ConfigurationError and *)
(* no quote.                                                               *)
(***************************************************************************)
C1_EmptyPeerSetFails ==
  (BestQuoteDone /\ numMiners = 0) =>
    (outcome = "error" /\ retErr = "ConfigurationError" /\ IsNil(retQuote))

(***************************************************************************)
(* C2 as stated: whenever some peer's fetch reports a transport error,     *)
(* BestQuote returns that transport error and no quote.  Stated here for   *)
(* the calls that return a quote or an error of the fetch, parse or verify *)
(* stage, so that what refutes it is the drain order alone and neither a   *)
(* runtime fault nor the fee calculator.                                   *)
(***************************************************************************)
StageErrors ==
  {"TransportFailure", "MalformedEnvelope", "MalformedPayload", "VerifierError"}

C2_ReturnsTransportError ==
  (/\ BestQuoteDone
   /\ outcome = "quote" \/ (outcome = "error" /\ retErr \in StageErrors)
   /\ \E i \in 1 .. Len(AllResults) : TransportFailed(AllResults[i]))
  => /\ outcome = "error" /\ IsNil(retQuote)
     /\ \E i \in 1 .. Len(AllResults) :
          /\ TransportFailed(AllResults[i])
          /\ retMiner = AllResults[i].Miner
          /\ retErr = AllResults[i].Response.Error

(***************************************************************************)
(* C2 amended: whenever some peer's fetch reports a transport error,       *)
(* BestQuote returns no quote, in every drain order; and it returns the    *)
(* transport error of the first such peer in drain order, having received  *)
(* no later result, whenever every result drained before it was parsed,    *)
(* verified and scored without error.                                      *)
(***************************************************************************)
C2_TransportErrorFailsCall ==
  (BestQuoteDone /\ \E i \in 1 .. Len(AllResults) : TransportFailed(AllResults[i]))
  => /\ outcome # "quote" /\ IsNil(retQuote)
     /\ LET k == FirstIndex(AllResults, TransportFailed) IN
        (\A j \in 1 .. (k - 1) : Clean(AllResults[j]))
        => /\ outcome = "error"
           /\ retErr = AllResults[k].Response.Error
           /\ retMiner = AllResults[k].Miner
           /\ Len(drained) = k

\* Two peers, the second one drained failed in transport, the first was fine.
C2_Witness ==
  /\ BestQuoteDone /\ numMiners = 2 /\ Len(drained) = 2
  /\ Clean(drained[1]) /\ TransportFailed(drained[2])
  /\ retErr = "TransportFailure"

(***************************************************************************)
(* C3.  When all N >= 1 peers succeed, the returned quote is a peer's      *)
(* quote whose fee at the reference byte count is the minimum over all     *)
(* peers (so, with distinct fees, the one peer holding the minimum).       *)
(***************************************************************************)
C3_ReturnsMinimum ==
  (/\ BestQuoteDone /\ numMiners >= 1
   /\ \A i \in 1 .. Len(AllResults) : Clean(AllResults[i]))
  => /\ outcome = "quote" /\ ~IsNil(retQuote)
     /\ \E i \in 1 .. Len(AllResults) :
          /\ Deref(retQuote) = parseResponseIntoQuote(AllResults[i]).response
          /\ \A j \in 1 .. Len(AllResults) :
               ScoreOf(AllResults[i]).fee <= ScoreOf(AllResults[j]).fee

\* Two peers succeed and the cheaper one is drained second.
C3_Witness ==
  /\ BestQuoteDone /\ outcome = "quote" /\ numMiners = 2 /\ Len(drained) = 2
  /\ Clean(drained[1]) /\ Clean(drained[2])
  /\ ScoreOf(drained[2]).fee < ScoreOf(drained[1]).fee
  /\ Deref(retQuote).Miner = drained[2].Miner

(***************************************************************************)
(* C4.  Full barrier: no result is received from the channel, and the call *)
(* does not return, before every launched fetch has completed.             *)
(***************************************************************************)
C4_FullBarrier ==
  (call = "BestQuote" /\ (Len(drained) > 0 \/ closed \/ outcome # "running"))
  => /\ launched = numMiners
     /\ \A m \in MinerSet : worker[m] = "done"

\* A result is being inspected in a call with two peers.
C4_Witness ==
  call = "BestQuote" /\ numMiners = 2 /\ pc = "drain" /\ Len(drained) = 1

(***************************************************************************)
(* C5.  All-or-nothing: a quote is returned only if no peer has a hard     *)
(* error; if any peer has one, the call fails with the first error met in  *)
(* drain order, returns no quote and processes no later result.            *)
(***************************************************************************)
C5_AllOrNothing ==
  BestQuoteDone =>
    /\ outcome = "quote" => \A i \in 1 .. Len(AllResults) : ~HardError(AllResults[i])
    /\ (\E i \in 1 .. Len(AllResults) : HardError(AllResults[i]))
       => LET Errs(r) == ErrorOf(r) # NoErr
              k == FirstIndex(AllResults, Errs)
          IN /\ outcome = "error" /\ IsNil(retQuote)
             /\ retErr = ErrorOf(AllResults[k])
             /\ Len(drained) = k

C8_VerifiesReceivedPayload ==
  \A i \in 1 .. Len(parsed) :
    Len(parsed[i].calls) = 1
    => parsed[i].calls[1].digest = Sum256(EnvelopeOf(parsed[i]).payload)

(***************************************************************************)
(* C8 amended: the verifier is handed the digest of the backslash-stripped *)
(* payload, the same string the inner decoder receives and the response    *)
(* keeps as Payload; it equals the received payload exactly when that      *)
(* contains no backslash.                                                  *)
(***************************************************************************)
C8_VerifiesStrippedPayload ==
  \A i \in 1 .. Len(parsed) :
    Len(parsed[i].calls) = 1
    => LET received == EnvelopeOf(parsed[i]).payload IN
       /\ parsed[i].calls[1].digest = Sum256(StripSlashes(received))
       /\ parsed[i].response.Payload = StripSlashes(received)
       /\ (parsed[i].calls[1].digest = Sum256(received)) <=> ~HasBackslash(received)

\* The verifier was called for a payload that contains a backslash.
C8_Witness ==
  \E i \in 1 .. Len(parsed) :
    Len(parsed[i].calls) = 1 /\ HasBackslash(EnvelopeOf(parsed[i]).payload)

(***************************************************************************)
(* C9.  The zero-fee warning is soft: BestQuote returns a quote when every *)
(* peer is fetched, parsed, verified and scored with no error other than   *)
(* the zero-fee warning.                                                   *)
(***************************************************************************)
C9_ZeroFeeIsSoft ==
  (/\ BestQuoteDone /\ numMiners >= 1
   /\ \A i \in 1 .. Len(AllResults) :
        ErrorOf(AllResults[i]) \in {NoErr, "ZeroFeeWarning"})
  => (outcome = "quote" /\ ~IsNil(retQuote))

(***************************************************************************)
(* C10.  No peer response makes FeeQuote or BestQuote end in a runtime     *)
(* fault (nil dereference, division by zero).                              *)
(***************************************************************************)
C10_NoPanic == outcome # "panic"

(***************************************************************************)
(* Vocabulary of the properties of GetFee.                                 *)
(***************************************************************************)
GetFeeDone == call = "GetFee" /\ pc = "done"

\* The arguments pass the case-insensitive validation.
ParamsOK ==
  /\ Lower(feeType) \in {"data", "standard"}
  /\ Lower(feeCategory) \in {"mining", "relay"}

Entries == IF IsNil(feeArg.f) THEN <<>> ELSE Deref(feeArg.f).Fees

\* The schedule is there and has no nil entry.
WellFormed == ~IsNil(feeArg.f) /\ \A i \in 1 .. Len(Entries) : ~IsNil(Entries[i])

ExactTag(e) == Deref(e).FeeType = feeType

FoldedTag(e) == Lower(Deref(e).FeeType) = Lower(feeType)

\* The rate the category asks for.
AskedRate(e) ==
  IF Lower(feeCategory) = "mining" THEN Deref(e).MiningFee ELSE Deref(e).RelayFee

\* The first entry tagged exactly feeType has a rate with a positive byte
\* denominator.
HasUsableRate ==
  /\ WellFormed
  /\ FirstIndex(Entries, ExactTag) > 0
  /\ LET e == Entries[FirstIndex(Entries, ExactTag)] IN
     ~IsNil(AskedRate(e)) /\ Deref(AskedRate(e)).Bytes > 0

UsedRate == Deref(AskedRate(Entries[FirstIndex(Entries, ExactTag)]))

(***************************************************************************)
(* C11.  GetFee computes the fee from the first entry whose tag equals the *)
(* requested feeType ignoring case, for every feeType that passes the      *)
(* validation; FeeTypeNotFound is not returned when such an entry exists.  *)
(***************************************************************************)
C11_CaseInsensitiveTag ==
  (/\ GetFeeDone /\ ParamsOK /\ WellFormed
   /\ FirstIndex(Entries, FoldedTag) > 0)
  => /\ feeRet.err # "FeeTypeNotFound"
     /\ feeRet = CalcFee(Deref(Entries[FirstIndex(Entries, FoldedTag)]),
                         feeCategory, feeArg.txBytes)

(***************************************************************************)
(* C12.  With a feeType other than data/standard or a category other than  *)
(* mining/relay (ignoring case) GetFee returns fee 0 and the               *)
(* UnrecognizedParameter error, whatever the schedule: nil receiver, nil   *)
(* entry, empty or full.                                                   *)
(***************************************************************************)
C12_UnrecognizedParameter ==
  (GetFeeDone /\ ~ParamsOK)
  => (feeRet.kind = "return" /\ feeRet.fee = 0 /\ feeRet.err = "UnrecognizedParameter")

\* The category is not recognised, the fee type is, and the receiver is nil.
C12_Witness ==
  /\ GetFeeDone /\ IsNil(feeArg.f)
  /\ feeCategory = "bogus" /\ feeType = "standard"
  /\ feeRet.err = "UnrecognizedParameter"

(***************************************************************************)
(* C13.  GetFee never returns (0, nil): a nil error comes with a nonzero   *)
(* fee; a matching rate whose satoshis * txBytes / bytes floors to 0       *)
(* returns (1, ZeroFeeWarning); a schedule with no matching entry returns  *)
(* (1, FeeTypeNotFound).                                                   *)
(***************************************************************************)
C13_NeverZeroWithoutError ==
  GetFeeDone =>
    /\ feeRet.err = NoErr => feeRet.fee # 0
    /\ (/\ ParamsOK /\ HasUsableRate /\ UsedRate.Shift = 0
        /\ UsedRate.Satoshis * feeArg.txBytes >= 0
        /\ UsedRate.Satoshis * feeArg.txBytes < UsedRate.Bytes)
       => (feeRet.kind = "return" /\ feeRet.fee = 1 /\ feeRet.err = "ZeroFeeWarning")
    /\ (ParamsOK /\ WellFormed /\ FirstIndex(Entries, FoldedTag) = 0)
       => (feeRet.kind = "return" /\ feeRet.fee = 1 /\ feeRet.err = "FeeTypeNotFound")

\* A rate of 1 satoshi per 2000 bytes at 1000 bytes floors to 0.
C13_Witness ==
  /\ GetFeeDone /\ ParamsOK /\ HasUsableRate
  /\ UsedRate.Satoshis = 1 /\ UsedRate.Bytes = 2000 /\ feeArg.txBytes = 1000
  /\ feeRet.fee = 1 /\ feeRet.err = "ZeroFeeWarning"

(***************************************************************************)
(* C14 as stated: with a matching entry and a positive byte denominator    *)
(* GetFee returns floor(satoshis * txBytes / bytes), whenever that is      *)
(* nonzero, also for negative products and for products beyond 64 bits.    *)
(* For an amount of 2^Shift satoshis and more the floor is not computed    *)
(* here: it is positive, so the claim has the call return without error.   *)
(***************************************************************************)
C14_FloorOfProduct ==
  (GetFeeDone /\ ParamsOK /\ HasUsableRate)
  => IF UsedRate.Shift = 0
     THEN LET floor == (UsedRate.Satoshis * feeArg.txBytes) \div UsedRate.Bytes IN
          floor # 0 => (feeRet.kind = "return" /\ feeRet.fee = floor /\ feeRet.err = NoErr)
     ELSE (UsedRate.Satoshis > 0 /\ feeArg.txBytes > 0)
          => (feeRet.kind = "return" /\ feeRet.fee > 1 /\ feeRet.err = NoErr)

(***************************************************************************)
(* C14 amended: with an entry tagged feeType and a positive byte           *)
(* denominator GetFee returns the int64 quotient of satoshis * txBytes by  *)
(* bytes, truncated toward zero, whenever it is nonzero, from the mining   *)
(* rate for category mining and the relay rate for relay.  That is the     *)
(* floor when the product is not negative and fits in 64 bits; a negative  *)
(* product is rounded toward zero, and a product that is a multiple of     *)
(* 2^64 wraps to 0 and returns (1, ZeroFeeWarning).                        *)
(***************************************************************************)
C14_TruncatedWrappedQuotient ==
  (GetFeeDone /\ ParamsOK /\ HasUsableRate)
  => LET product == UsedRate.Satoshis * feeArg.txBytes IN
     IF UsedRate.Shift = 0
     THEN LET quotient == IF product >= 0 THEN product \div UsedRate.Bytes
                          ELSE -((-product) \div UsedRate.Bytes)
          IN quotient # 0
             => (feeRet.kind = "return" /\ feeRet.fee = quotient /\ feeRet.err = NoErr)
     ELSE product % (2 ^ (WordBits - UsedRate.Shift)) = 0
          => (feeRet.kind = "return" /\ feeRet.fee = 1 /\ feeRet.err = "ZeroFeeWarning")

\* -3 satoshis per 2000 bytes at 1000 bytes: -1, where the floor is -2.
C14_Witness ==
  /\ GetFeeDone /\ ParamsOK /\ HasUsableRate
  /\ UsedRate.Satoshis = -3 /\ UsedRate.Bytes = 2000 /\ feeArg.txBytes = 1000
  /\ feeRet.fee = -1 /\ feeRet.err = NoErr

(***************************************************************************)
(* C15.  FeeQuote returns an error and no quote, or a quote whose schedule *)
(* is present with at least one fee entry.  A nil miner fails with         *)
(* ConfigurationError before any request; a transport, parse or verifier   *)
(* error is returned as is; a response with no schedule or no fee entries  *)
(* fails with EmptyScheduleError.                                          *)
(***************************************************************************)
C15_QuoteOrError ==
  (call = "FeeQuote" /\ pc = "done")
  => /\ \/ outcome = "error" /\ retErr # NoErr /\ IsNil(retQuote)
        \/ /\ outcome = "quote" /\ retErr = NoErr /\ ~IsNil(retQuote)
           /\ ~IsNil(Deref(retQuote).Quote)
           /\ Len(Deref(Deref(retQuote).Quote).Fees) >= 1
     /\ miner = 0 => (retErr = "ConfigurationError" /\ requests = 0)
     /\ miner # 0
        => /\ requests = 1 /\ Len(drained) = 1
           /\ LET r == drained[1]
                  p == parseResponseIntoQuote(r)
              IN
              IF TransportFailed(r) THEN retErr = r.Response.Error
              ELSE IF p.err # NoErr THEN retErr = p.err
              ELSE IF IsNil(p.response.Quote) THEN retErr = "EmptyScheduleError"
              ELSE IF Deref(p.response.Quote).Fees = <<>>
                   THEN retErr = "EmptyScheduleError"
              ELSE outcome = "quote" /\ Deref(retQuote) = p.response

\* The payload decoded to a schedule that has no fee entries.
C15_Witness ==
  /\ call = "FeeQuote" /\ pc = "done" /\ Len(parsed) = 1
  /\ ~IsNil(parsed[1].response.Quote)
  /\ Deref(parsed[1].response.Quote).Fees = <<>>
  /\ retErr = "EmptyScheduleError"

(***************************************************************************)
(* C16.  The returned quote belongs to the peer whose fetch produced it:   *)
(* its Miner is a configured peer and its Signature, PublicKey, Encoding   *)
(* and MimeType are the values that peer's response carried; the same      *)
(* holds of every response parsed on the way.                              *)
(***************************************************************************)
SameEnvelope(response, r) ==
  /\ response.Miner = r.Miner
  /\ response.Signature = r.Response.BodyContents.signature
  /\ response.PublicKey = r.Response.BodyContents.publicKey
  /\ response.Encoding = r.Response.BodyContents.encoding
  /\ response.MimeType = r.Response.BodyContents.mimetype

C17_ChannelNeverFull ==
  call = "BestQuote"
  => /\ Len(resultsChannel) <= numMiners
     /\ \A m \in MinerSet :
          worker[m] = "running"
          => Len(resultsChannel) < numMiners /\ ENABLED Fetch(m)
     /\ closed
        => /\ Len(AllResults) = numMiners
           /\ \A m \in MinerSet :
                /\ worker[m] = "done"
                /\ Cardinality({i \in 1 .. Len(AllResults) : AllResults[i].Miner = m}) = 1

\* Two workers have sent, the channel is full and closed.
C17_Witness ==
  call = "BestQuote" /\ numMiners = 2 /\ closed /\ Len(resultsChannel) = 2

(***************************************************************************)
(* C18.  Tie-break: the incumbent best is replaced only by a strictly      *)
(* cheaper result, so at every point of the drain the best quote is the    *)
(* first received among those with the minimum fee, and that one is        *)
(* returned.                                                               *)
(***************************************************************************)
MinFee(results) ==
  CHOOSE f \in {ScoreOf(results[i]).fee : i \in 1 .. Len(results)} :
    \A i \in 1 .. Len(results) : f <= ScoreOf(results[i]).fee

C18_FirstOfTheCheapest ==
  (/\ call = "BestQuote" /\ outcome \in {"running", "quote"}
   /\ Len(drained) >= 1)
  => LET Cheapest(r) == ScoreOf(r).fee = MinFee(drained)
         k == FirstIndex(drained, Cheapest)
     IN /\ bestRate = MinFee(drained)
        /\ bestQuote = parseResponseIntoQuote(drained[k]).response
        /\ outcome = "quote" => Deref(retQuote) = bestQuote

\* Two peers quote the same fee and the first received is returned.
C18_Witness ==
  /\ BestQuoteDone /\ outcome = "quote" /\ Len(drained) = 2
  /\ ScoreOf(drained[1]).fee = ScoreOf(drained[2]).fee
  /\ Deref(retQuote).Miner = drained[1].Miner

(***************************************************************************)
(* C19.  In best_quote.go the context is cancelled only when the call      *)
(* returns, after the barrier and the drain: never while a fetch is in     *)
(* flight.                                                                 *)
(***************************************************************************)
C19_CancelAfterBarrier ==
  /\ cancelled
     => /\ variant = "best_quote" /\ pc = "done" /\ closed
        /\ \A m \in MinerSet : worker[m] = "done"
  /\ (call = "BestQuote" /\ variant = "best_quote" /\ pc = "done") => cancelled

\* The call over two peers has returned and cancelled its context.
C19_Witness ==
  cancelled /\ numMiners = 2 /\ Len(drained) = 2

(***************************************************************************)
(* C20.  Termination: BestQuote returns a quote or an error to its caller, *)
(* for every peer count and interleaving; until then a step can be taken   *)
(* (the barrier and the drain never block).                                *)
(***************************************************************************)
C20_ReturnsOrCanStep ==
  call = "BestQuote"
  => \/ pc = "done" /\ outcome \in {"quote", "error"}
     \/ ENABLED Next

\* Every worker's fetch returns and the caller keeps running.
Fairness ==
  /\ \A m \in 1 .. MaxPeers :
       /\ WF_vars(m \in MinerSet /\ Fetch(m))
       /\ WF_vars(m \in MinerSet /\ Done(m))
  /\ WF_vars(Launch) /\ WF_vars(WaitAndClose) /\ WF_vars(Drain) /\ WF_vars(ReturnBest)

LiveSpec == Spec /\ Fairness

\* Under that fairness every BestQuote call ends.
BestQuoteEnds == (call = "BestQuote") => <>(pc = "done")

\* Until the call ends some step can be taken.
NeverBlocked == (call = "BestQuote" /\ pc # "done") => ENABLED Next

====
